---- MODULE Spec2Model ----
(***************************************************************************)
(* The three lab notebooks (02 PyTorch/ONNX, 04 TensorFlow, 05 TensorRT)   *)
(* as straight-line programs over a shared model repository, together with *)
(* the inference server that polls that repository.                        *)
(*                                                                         *)
(* Every code cell is one step of its notebook's kernel.  Cells run in     *)
(* document order; a cell that raises leaves the kernel at that cell, and  *)
(* the placeholder cells holding FIXME are skipped.  The three kernels     *)
(* interleave freely, and time passes in ticks between their steps.        *)
(***************************************************************************)
EXTENDS Integers, Sequences, FiniteSets, TLC

VARIABLES
    pc,         \* pc[n]: index of the next code cell of notebook n
    ns,         \* ns[n]: the kernel's namespace, name -> value
    gpu,        \* gpu[n]: names whose objects the kernel placed on the GPU
    err,        \* err[n]: the exception the last executed cell raised, or ""
    log,        \* log[n]: the steps notebook n completed in this run
    sleepLeft,  \* sleepLeft[n]: seconds the running `sleep` still has to wait
    fs,         \* the file system: path -> node
    modified,   \* model directories written since the server's last poll
    sincePoll,  \* seconds since the server's last repository poll
    loading,    \* models the server is loading: name -> configuration
    served,     \* models the server has ready: name -> configuration
    polled,     \* polled[n]: what the polls during n's sleep saw of n's models
    sent,       \* the inference requests each notebook sent in its latest run
    open,       \* the notebooks being worked through
    reruns      \* notebooks opened again after their last cell

vars == <<pc, ns, gpu, err, log, sleepLeft, fs, modified, sincePoll,
          loading, served, polled, sent, open, reruns>>

kernelVars == <<ns, gpu>>
serverVars == <<modified, sincePoll, loading, served>>

----------------------------------------------------------------------------
(* Bounds of the model *)

\* how many notebooks are worked through at the same time: each run holds
\* GPU memory until its last cell frees it "for other section of the lab"
MaxOpen == 1

\* how many times, in all, a finished notebook is opened and run again
MaxReruns == 1

----------------------------------------------------------------------------
(* Values of the kernel namespace.  A string s is held as <<s>>, a shape  *)
(* as its tuple of dimensions, every other object as the empty tuple.     *)

S(s) == <<s>>
Obj == <<>>
Opaque(names) == [x \in names |-> Obj]

Notebooks == {"02", "04", "05"}

Models == <<"models">>
ModelDir(m) == <<"models", m>>
VersionDir(m, v) == <<"models", m, v>>
ConfigPath(m) == <<"models", m, "config.pbtxt">>
\* the artifact saved next to config.pbtxt instead of into the version directory
ArtifactPathNoVersion(m, v, f) == <<"models", m, f>>

ArtifactPath(m, v, f) == <<"models", m, v, f>>

\* the tree notebook 02 documents: root@server:/models$ tree
DocumentedTree02 ==
    {<<"models", "simple-onnx-model">>,
     <<"models", "simple-onnx-model", "1">>,
     <<"models", "simple-onnx-model", "1", "model.onnx">>,
     <<"models", "simple-onnx-model", "config.pbtxt">>,
     <<"models", "simple-pytorch-model">>,
     <<"models", "simple-pytorch-model", "1">>,
     <<"models", "simple-pytorch-model", "1", "model.pt">>,
     <<"models", "simple-pytorch-model", "config.pbtxt">>}

LabelsJson == <<"imagenet-simple-labels.json">>
GoldfishJpg == <<"assets", "goldfish.jpg">>

\* the export without the name of the actual input: only the learned ones
input_names_learned == <<"learned_0", "learned_1", "learned_2", "learned_3">>

\* input_names = ['actual_input_1'] + ['learned_%d' % i for i in range(16)]
input_names ==
    <<"actual_input_1", "learned_0", "learned_1", "learned_2", "learned_3",
      "learned_4", "learned_5", "learned_6", "learned_7", "learned_8",
      "learned_9", "learned_10", "learned_11", "learned_12", "learned_13",
      "learned_14", "learned_15">>

output_names == <<"output1">>

\* dynamic_axes={'actual_input_1': {0: 'batch_size'}, 'output1': {0: 'batch_size'}}
dynamic_axes == {<<"actual_input_1", 0>>, <<"output1", 0>>}

Cell(line, kind, reads, binds, onGpu, arg) ==
    [line |-> line, kind |-> kind, reads |-> reads, binds |-> binds,
     gpu |-> onGpu, arg |-> arg]

Artifact(format, input, output, dynamic, profile, precision) ==
    [format |-> format, input |-> input, output |-> output,
     dynamic |-> dynamic, profile |-> profile, precision |-> precision]

NoProfile == [min |-> <<>>, opt |-> <<>>, max |-> <<>>]

Input(name, type, format, dims) ==
    [name |-> name, data_type |-> type, format |-> format, dims |-> dims]

Output(name, type, dims) == [name |-> name, data_type |-> type, dims |-> dims]

Config(name, platform, maxBatch, input, output) ==
    [name |-> name, platform |-> platform, max_batch_size |-> maxBatch,
     input |-> input, output |-> output]

\* the request parameter cell of the PyTorch section copied as it stands: the
\* tensor names stay those of the PyTorch model
RequestParamsCopied(inName, shape, dtype, outName, model) ==
    ("VERBOSE" :> Obj) @@ ("input_name" :> S("input__0")) @@
    ("input_shape" :> shape) @@ ("input_dtype" :> S(dtype)) @@
    ("output_name" :> S("output__0")) @@ ("model_name" :> S(model)) @@
    ("url" :> S("triton:8000")) @@ ("model_version" :> S("1"))

RequestParams(inName, shape, dtype, outName, model) ==
    ("VERBOSE" :> Obj) @@ ("input_name" :> S(inName)) @@
    ("input_shape" :> shape) @@ ("input_dtype" :> S(dtype)) @@
    ("output_name" :> S(outName)) @@ ("model_name" :> S(model)) @@
    ("url" :> S("triton:8000")) @@ ("model_version" :> S("1"))

ClientReads == {"tritonhttpclient", "url", "VERBOSE", "model_name", "model_version"}
\* the client bound to another name than the one the infer cell uses
ClientBindsRenamed == Opaque({"client", "model_metadata", "model_config"})

ClientBinds == Opaque({"triton_client", "model_metadata", "model_config"})

InferReads == {"tritonhttpclient", "input_name", "input_shape", "input_dtype",
               "image_numpy", "output_name", "triton_client", "model_name",
               "model_version", "np"}
NoLiterals == <<>>

\* a sleep of only the 15 seconds the notebooks "added to be safe"
SleepSecsMarginOnly == 45 - 30

\* !sleep 45
SleepSecs == 45

PrintReads == {"labels", "np", "logits"}

----------------------------------------------------------------------------
(* The configuration files the notebooks write *)

PyTorchConfig ==
    Config("simple-pytorch-model", "pytorch_libtorch", 32,
           Input("input__0", "TYPE_FP32", "FORMAT_NCHW", <<3, 224, 224>>),
           Output("output__0", "TYPE_FP32", <<1000>>))

OnnxConfig ==
    Config("simple-onnx-model", "onnxruntime_onnx", 32,
           Input("actual_input_1", "TYPE_FP32", "FORMAT_NCHW", <<3, 224, 224>>),
           Output("output1", "TYPE_FP32", <<1000>>))

\* the TensorFlow configuration with the layout of the PyTorch one
TensorFlowConfigNCHW ==
    Config("simple-tensorflow-model", "tensorflow_savedmodel", 32,
           Input("input_0", "TYPE_FP32", "FORMAT_NCHW", <<3, 224, 224>>),
           Output("output_0", "TYPE_FP32", <<1000>>))

TensorFlowConfig ==
    Config("simple-tensorflow-model", "tensorflow_savedmodel", 32,
           Input("input_0", "TYPE_FP32", "FORMAT_NHWC", <<224, 224, 3>>),
           Output("output_0", "TYPE_FP32", <<1000>>))

TensorRTFp32Config ==
    Config("simple-tensorrt-fp32-model", "tensorrt_plan", 32,
           Input("actual_input_1", "TYPE_FP32", "FORMAT_NCHW", <<3, 224, 224>>),
           Output("output1", "TYPE_FP32", <<1000>>))

\* the FP16 configuration declaring half-precision tensors
TensorRTFp16ConfigHalf ==
    Config("simple-tensorrt-fp16-model", "tensorrt_plan", 32,
           Input("actual_input_1", "TYPE_FP16", "FORMAT_NCHW", <<3, 224, 224>>),
           Output("output1", "TYPE_FP16", <<1000>>))

TensorRTFp16Config ==
    Config("simple-tensorrt-fp16-model", "tensorrt_plan", 32,
           Input("actual_input_1", "TYPE_FP32", "FORMAT_NCHW", <<3, 224, 224>>),
           Output("output1", "TYPE_FP32", <<1000>>))

----------------------------------------------------------------------------
(* Notebook 02 - Simple PyTorch Model: its code cells in document order *)

Cells02 == <<
    Cell(82, "mkdir", {}, <<>>, {},
         <<ModelDir("simple-pytorch-model"),
           VersionDir("simple-pytorch-model", "1"),
           ModelDir("simple-onnx-model"),
           VersionDir("simple-onnx-model", "1")>>),
    Cell(104, "python", {},
         Opaque({"torch", "nn", "models", "Model", "model"}), {"model"}, <<>>),
    Cell(133, "python", {},
         Opaque({"json", "file", "labels"}), {}, <<LabelsJson>>),
    Cell(154, "python", {},
         Opaque({"np", "Image", "image"}), {}, <<GoldfishJpg>>),
    Cell(175, "python", {},
         Opaque({"transforms", "imagenet_mean", "imagenet_std", "resize",
                 "center_crop", "to_tensor", "normalize", "transform"}),
         {}, <<>>),
    Cell(205, "python", {"transform", "image", "model", "torch", "labels"},
         ("image_tensor" :> <<1, 3, 224, 224>>) @@ ("logits" :> S("local")) @@
         Opaque({"K", "values", "indices", "i"}),
         {"image_tensor", "logits"}, <<>>),
    Cell(250, "export", {"nn", "model", "torch"},
         Opaque({"PyTorch_to_TorchScript", "torchscript_model",
                 "traced_script_module"}),
         {"torchscript_model", "traced_script_module"},
         [path |-> ArtifactPath("simple-pytorch-model", "1", "model.pt"),
          artifact |-> Artifact("torchscript", "", "", {}, NoProfile, "fp32")]),
    Cell(280, "export", {"torch", "model"},
         Opaque({"dummy_input", "input_names", "output_names"}),
         {"dummy_input"},
         [path |-> ArtifactPath("simple-onnx-model", "1", "model.onnx"),
          artifact |-> Artifact("onnx", Head(input_names), Head(output_names),
                                dynamic_axes, NoProfile, "fp32")]),
    Cell(313, "write_config", {}, Opaque({"configuration", "file"}), {},
         [path |-> ConfigPath("simple-pytorch-model"), config |-> PyTorchConfig]),
    Cell(349, "write_config", {}, Opaque({"configuration", "file"}), {},
         [path |-> ConfigPath("simple-onnx-model"), config |-> OnnxConfig]),
    Cell(389, "sleep", {}, <<>>, {}, SleepSecs),
    Cell(405, "curl", {}, <<>>, {}, <<"v2", "health", "ready">>),
    Cell(430, "curl", {}, <<>>, {}, <<"v2", "models", "simple-pytorch-model">>),
    Cell(439, "curl", {}, <<>>, {}, <<"v2", "models", "simple-onnx-model">>),
    Cell(460, "python", {}, Opaque({"tritonhttpclient"}), {}, <<>>),
    Cell(476, "python", {},
         RequestParams("input__0", <<1, 3, 224, 224>>, "FP32", "output__0",
                       "simple-pytorch-model"), {}, <<>>),
    Cell(499, "client", ClientReads, ClientBinds, {}, <<>>),
    Cell(517, "python", {"image_tensor"},
         ("image_numpy" :> <<1, 3, 224, 224>>), {}, <<>>),
    Cell(536, "infer", InferReads, <<>>, {}, NoLiterals),
    Cell(560, "print", PrintReads, <<>>, {}, <<>>),
    Cell(590, "fixme", {"FIXME"}, <<>>, {}, <<>>),
    Cell(611, "python", {},
         RequestParams("actual_input_1", <<1, 3, 224, 224>>, "FP32", "output1",
                       "simple-onnx-model"), {}, <<>>),
    Cell(634, "fixme", {"tritonhttpclient", "url", "VERBOSE"}, <<>>, {}, <<>>),
    Cell(650, "client", ClientReads, ClientBinds, {}, <<>>),
    Cell(670, "python", {"image_tensor"},
         ("image_numpy" :> <<1, 3, 224, 224>>), {}, <<>>),
    Cell(687, "fixme", {"FIXME"}, <<>>, {}, <<>>),
    Cell(707, "infer", InferReads, <<>>, {}, NoLiterals),
    Cell(730, "print", PrintReads, <<>>, {}, <<>>),
    Cell(751, "shutdown", {}, Opaque({"IPython"}), {}, TRUE)
>>

----------------------------------------------------------------------------
(* Notebook 04 - Simple TensorFlow Model *)

Cells04 == <<
    Cell(82, "mkdir", {}, <<>>, {},
         <<ModelDir("simple-tensorflow-model"),
           VersionDir("simple-tensorflow-model", "1")>>),
    Cell(104, "export", {},
         Opaque({"tf", "WrappedModel", "model", "call"}), {"model"},
         [path |-> ArtifactPath("simple-tensorflow-model", "1", "model.savedmodel"),
          artifact |-> Artifact("savedmodel", "input_0", "", {<<"input_0", 0>>},
                                NoProfile, "fp32")]),
    Cell(137, "python", {},
         Opaque({"json", "file", "labels"}), {}, <<LabelsJson>>),
    Cell(158, "python", {},
         Opaque({"np", "Image", "img_path", "image_pil"}), {}, <<GoldfishJpg>>),
    Cell(180, "python", {"img_path"},
         ("image_numpy" :> <<1, 224, 224, 3>>) @@
         Opaque({"ResNet50", "image", "preprocess_input", "decode_predictions",
                 "np", "model", "img", "preds"}),
         {"model"}, <<GoldfishJpg>>),
    Cell(220, "write_config", {}, Opaque({"configuration", "file"}), {},
         [path |-> ConfigPath("simple-tensorflow-model"),
          config |-> TensorFlowConfig]),
    Cell(260, "sleep", {}, <<>>, {}, SleepSecs),
    Cell(276, "curl", {}, <<>>, {}, <<"v2", "health", "ready">>),
    Cell(301, "curl", {}, <<>>, {}, <<"v2", "models", "simple-tensorflow-model">>),
    Cell(322, "python", {},
         Opaque({"tritonhttpclient", "triton_to_np_dtype"}), {}, <<>>),
    Cell(339, "python", {},
         RequestParams("input_0", <<1, 224, 224, 3>>, "FP32", "output_0",
                       "simple-tensorflow-model"), {}, <<>>),
    Cell(362, "client", ClientReads, ClientBinds, {}, <<>>),
    Cell(382, "infer", InferReads, <<>>, {}, NoLiterals),
    Cell(405, "print", PrintReads, <<>>, {}, <<>>),
    Cell(426, "rm_rf", {}, <<>>, {}, ModelDir("simple-tensorflow-model")),
    Cell(435, "shutdown", {}, Opaque({"IPython"}), {}, TRUE)
>>

----------------------------------------------------------------------------
(* Notebook 05 - Simple TensorRT Model *)

\* --optShapes / --maxShapes / --minShapes / --shapes of both trtexec cells
TrtShapesFp32 ==
    [opt |-> <<"actual_input_1", <<16, 3, 224, 224>>>>,
     max |-> <<"actual_input_1", <<32, 3, 224, 224>>>>,
     min |-> <<"actual_input_1", <<1, 3, 224, 224>>>>,
     shapes |-> <<"actual_input_1", <<1, 3, 224, 224>>>>]

\* the second conversion with a profile that ends at the opt batch size
TrtShapesFp16Max16 ==
    [opt |-> <<"actual_input_1", <<16, 3, 224, 224>>>>,
     max |-> <<"actual_input_1", <<16, 3, 224, 224>>>>,
     min |-> <<"actual_input_1", <<1, 3, 224, 224>>>>,
     shapes |-> <<"actual_input_1", <<1, 3, 224, 224>>>>]

\* the shape options of the second conversion (--fp16)
TrtShapesFp16 ==
    [opt |-> <<"actual_input_1", <<16, 3, 224, 224>>>>,
     max |-> <<"actual_input_1", <<32, 3, 224, 224>>>>,
     min |-> <<"actual_input_1", <<1, 3, 224, 224>>>>,
     shapes |-> <<"actual_input_1", <<1, 3, 224, 224>>>>]

Cells05 == <<
    Cell(100, "mkdir", {}, <<>>, {},
         <<ModelDir("simple-tensorrt-fp32-model"),
           VersionDir("simple-tensorrt-fp32-model", "1"),
           ModelDir("simple-tensorrt-fp16-model"),
           VersionDir("simple-tensorrt-fp16-model", "1")>>),
    Cell(124, "python", {}, <<>>, {}, <<>>),
    Cell(133, "trtexec", {}, <<>>, {},
         [onnx |-> ArtifactPath("simple-onnx-model", "1", "model.onnx"),
          shapes |-> TrtShapesFp32,
          saveEngine |-> ArtifactPath("simple-tensorrt-fp32-model", "1", "model.plan"),
          fp16 |-> FALSE]),
    Cell(163, "trtexec", {}, <<>>, {},
         [onnx |-> ArtifactPath("simple-onnx-model", "1", "model.onnx"),
          shapes |-> TrtShapesFp16,
          saveEngine |-> ArtifactPath("simple-tensorrt-fp16-model", "1", "model.plan"),
          fp16 |-> TRUE]),
    Cell(195, "write_config", {}, Opaque({"configuration", "file"}), {},
         [path |-> ConfigPath("simple-tensorrt-fp32-model"),
          config |-> TensorRTFp32Config]),
    Cell(231, "write_config", {}, Opaque({"configuration", "file"}), {},
         [path |-> ConfigPath("simple-tensorrt-fp16-model"),
          config |-> TensorRTFp16Config]),
    Cell(271, "sleep", {}, <<>>, {}, SleepSecs),
    Cell(287, "curl", {}, <<>>, {}, <<"v2", "health", "ready">>),
    Cell(312, "curl", {}, <<>>, {}, <<"v2", "models", "simple-tensorrt-fp32-model">>),
    Cell(321, "curl", {}, <<>>, {}, <<"v2", "models", "simple-tensorrt-fp16-model">>),
    Cell(342, "python", {},
         Opaque({"tritonhttpclient", "triton_to_np_dtype"}), {}, <<>>),
    Cell(359, "python", {},
         Opaque({"json", "file", "labels"}), {}, <<LabelsJson>>),
    Cell(371, "python", {},
         Opaque({"np", "Image", "img_path", "image_pil"}), {}, <<GoldfishJpg>>),
    Cell(386, "python", {"img_path"},
         ("image_numpy" :> <<1, 3, 224, 224>>) @@
         Opaque({"image", "preprocess_input", "np", "img"}),
         {}, <<GoldfishJpg>>),
    Cell(412, "python", {},
         ("VERBOSE" :> Obj) @@ ("input_name" :> S("actual_input_1")) @@
         ("output_name" :> S("output1")) @@
         ("model_name" :> S("simple-tensorrt-fp32-model")) @@
         ("url" :> S("triton:8000")) @@ ("model_version" :> S("1")),
         {}, <<>>),
    Cell(433, "client", ClientReads, ClientBinds, {}, <<>>),
    Cell(453, "infer", InferReads \ {"input_shape", "input_dtype"}, <<>>, {},
         ("input_shape" :> <<1, 3, 224, 224>>) @@ ("input_dtype" :> S("FP32"))),
    Cell(476, "print", PrintReads, <<>>, {}, <<>>),
    Cell(504, "fixme", {"FIXME"}, <<>>, {}, <<>>),
    Cell(525, "python", {},
         RequestParams("actual_input_1", <<1, 3, 224, 224>>, "FP32", "output1",
                       "simple-tensorrt-fp16-model"), {}, <<>>),
    Cell(548, "fixme", {"FIXME"}, <<>>, {}, <<>>),
    Cell(564, "client", ClientReads, ClientBinds, {}, <<>>),
    Cell(582, "fixme", {"FIXME"}, <<>>, {}, <<>>),
    Cell(602, "infer", InferReads, <<>>, {}, NoLiterals),
    Cell(625, "print", PrintReads, <<>>, {}, <<>>),
    Cell(646, "shutdown", {}, Opaque({"IPython"}), {}, TRUE)
>>

\* the cells of a notebook with its sleep moved in front of the cell before it
CellsSleepEarly(n) ==
    LET c == CASE n = "02" -> Cells02
               [] n = "04" -> Cells04
               [] n = "05" -> Cells05
    IN  [i \in 1..Len(c) |->
            IF c[i].kind = "sleep" THEN c[i - 1]
            ELSE IF i < Len(c) /\ c[i + 1].kind = "sleep" THEN c[i + 1]
            ELSE c[i]]

\* the cells of a notebook with its sleep moved up to right after the mkdir
\* cell, in front of the exports and the configuration writes
CellsSleepFirst(n) ==
    LET c == CASE n = "02" -> Cells02
               [] n = "04" -> Cells04
               [] n = "05" -> Cells05
        k == CHOOSE i \in 1..Len(c) : c[i].kind = "sleep"
    IN  [i \in 1..Len(c) |->
            IF i = 2 THEN c[k]
            ELSE IF i > 2 /\ i <= k THEN c[i - 1]
            ELSE c[i]]

Cells(n) == CASE n = "02" -> Cells02
              [] n = "04" -> Cells04
              [] n = "05" -> Cells05

End(n) == Len(Cells(n)) + 1

\* the cell notebook n runs next
Cur(n) == Cells(n)[pc[n]]

AtCell(n, kind) == n \in open /\ pc[n] <= Len(Cells(n)) /\ Cur(n).kind = kind

----------------------------------------------------------------------------
(* The file system *)

Dir == [kind |-> "dir", body |-> <<>>]
File == [kind |-> "file", body |-> <<>>]
ConfigFile(config) == [kind |-> "config", body |-> config]
ArtifactFile(artifact) == [kind |-> "artifact", body |-> artifact]

Parent(p) == SubSeq(p, 1, Len(p) - 1)
Prefixes(p) == {SubSeq(p, 1, k) : k \in 1..Len(p)}
\* p or one of the entries next to it lies above q: rm -rf models/*
IsPrefixOfSibling(p, q) ==
    Len(p) <= Len(q) /\ SubSeq(q, 1, Len(p) - 1) = SubSeq(p, 1, Len(p) - 1)

IsPrefix(p, q) == Len(p) <= Len(q) /\ SubSeq(q, 1, Len(p)) = p

IsDir(f, p) == p \in DOMAIN f /\ f[p].kind = "dir"

\* mkdir -p p: p and every missing ancestor of it become directories
MkdirP(f, p) ==
    IF \A q \in Prefixes(p) : q \in DOMAIN f => f[q].kind = "dir"
    THEN [q \in DOMAIN f \cup Prefixes(p) |-> IF q \in DOMAIN f THEN f[q] ELSE Dir]
    ELSE f

RECURSIVE MkdirAll(_, _)
MkdirAll(f, paths) ==
    IF paths = <<>> THEN f ELSE MkdirAll(MkdirP(f, Head(paths)), Tail(paths))

\* open(p, 'w') and the exporters: the directory of p has to exist
CanWrite(f, p) == IsDir(f, Parent(p)) /\ ~IsDir(f, p)
\* a write in mode 'a': a file that is there already gets the text a second
\* time and is no longer what was written
WriteFileAppend(f, p, node) ==
    [q \in DOMAIN f \cup {p} |->
        IF q # p THEN f[q] ELSE IF p \in DOMAIN f THEN File ELSE node]

WriteFile(f, p, node) == [q \in DOMAIN f \cup {p} |-> IF q = p THEN node ELSE f[q]]

\* rm -rf of the directory the model directory lies in: rm -rf models/
RmRfModels(f, p) == [q \in {q \in DOMAIN f : ~IsPrefix(Parent(p), q)} |-> f[q]]

\* rm -rf p: p and everything below it
RmRf(f, p) == [q \in {q \in DOMAIN f : ~IsPrefix(p, q)} |-> f[q]]

\* the model directory a path lies in, as the set of its names
ModelOf(p) == IF Len(p) >= 2 /\ p[1] = "models" THEN {p[2]} ELSE {}

\* the model directories in which two file systems differ
Touched(f, g) ==
    UNION {ModelOf(p) : p \in {q \in DOMAIN f \cup DOMAIN g :
                                 \/ q \notin DOMAIN f
                                 \/ q \notin DOMAIN g}}

----------------------------------------------------------------------------
(* The inference server's view of the repository *)

PollSecs == 30

\* the file a platform's backend looks for in a version directory
DefaultModelFilename(platform) ==
    CASE platform = "pytorch_libtorch" -> "model.pt"
      [] platform = "onnxruntime_onnx" -> "model.onnx"
      [] platform = "tensorflow_savedmodel" -> "model.savedmodel"
      [] platform = "tensorrt_plan" -> "model.plan"
      [] OTHER -> "model"

PlatformFormat(platform) ==
    CASE platform = "pytorch_libtorch" -> "torchscript"
      [] platform = "onnxruntime_onnx" -> "onnx"
      [] platform = "tensorflow_savedmodel" -> "savedmodel"
      [] platform = "tensorrt_plan" -> "plan"
      [] OTHER -> "unknown"

\* the wire name of a configuration data type: TYPE_FP32 is sent as FP32
WireDType(t) ==
    CASE t = "TYPE_FP32" -> "FP32"
      [] t = "TYPE_FP16" -> "FP16"
      [] t = "TYPE_INT32" -> "INT32"
      [] t = "TYPE_UINT8" -> "UINT8"
      [] OTHER -> "INVALID"

ModelDirs(f) == {p[2] : p \in {q \in DOMAIN f : Len(q) = 2 /\ q[1] = "models"}}

VersionDirs(f, m) ==
    {p[3] : p \in {q \in DOMAIN f : Len(q) = 3 /\ Parent(q) = ModelDir(m)
                                     /\ f[q].kind = "dir"}}

\* an artifact a backend can load under a configuration
Loadable(config, node) ==
    /\ node.kind = "artifact"
    /\ node.body.format = PlatformFormat(config.platform)
    /\ node.body.input # "" => node.body.input = config.input.name
    /\ node.body.output # "" => node.body.output = config.output.name
    /\ node.body.profile.max # <<>> =>
           /\ Tail(node.body.profile.max) = config.input.dims
           /\ config.max_batch_size <= Head(node.body.profile.max)

HasConfig(f, m) ==
    /\ ConfigPath(m) \in DOMAIN f
    /\ f[ConfigPath(m)].kind = "config"
    /\ f[ConfigPath(m)].body.name = m

Versions(f, m) ==
    {v \in VersionDirs(f, m) :
        LET a == ArtifactPath(m, v, DefaultModelFilename(f[ConfigPath(m)].body.platform))
        IN  a \in DOMAIN f /\ Loadable(f[ConfigPath(m)].body, f[a])}

Complete(f, m) == HasConfig(f, m) /\ Versions(f, m) # {}

\* what a poll finds of model m: "absent", "partial" or "complete"
Seen(f, m) ==
    IF ModelDir(m) \notin DOMAIN f THEN "absent"
    ELSE IF Complete(f, m) THEN "complete" ELSE "partial"

Without(f, names) == [x \in DOMAIN f \ names |-> f[x]]

----------------------------------------------------------------------------
(* Steps of a kernel *)

Ev(e, a) == [ev |-> e, arg |-> a]

\* a cell reads a name no earlier cell bound
NameError(n) == ~(Cur(n).reads \subseteq DOMAIN ns[n])

\* the cell ran to its end: its names are bound and the next cell is up
Bind(n, binds, onGpu) ==
    /\ ns' = [ns EXCEPT ![n] = binds @@ @]
    /\ gpu' = [gpu EXCEPT ![n] = @ \cup onGpu]

Advance(n, events) ==
    /\ pc' = [pc EXCEPT ![n] = @ + 1]
    /\ err' = [err EXCEPT ![n] = ""]
    /\ log' = [log EXCEPT ![n] = @ \o events]

\* the cell raised: the kernel stays at it
Raise(n, exception) ==
    /\ err' = [err EXCEPT ![n] = exception]
    /\ UNCHANGED <<pc, log>>

\* !mkdir -p ... (one line per directory)
Mkdir(n) ==
    /\ AtCell(n, "mkdir")
    /\ fs' = MkdirAll(fs, Cur(n).arg)
    /\ modified' = modified \cup Touched(fs, fs')
    /\ Advance(n, [i \in 1..Len(Cur(n).arg) |-> Ev("mkdir", Cur(n).arg[i])])
    /\ UNCHANGED <<ns, gpu, sleepLeft, sincePoll, loading, served, polled,
                   sent, open, reruns>>

\* a cell of plain Python: imports, definitions, local computation
Python(n) ==
    /\ AtCell(n, "python")
    /\ IF NameError(n)
       THEN Raise(n, "NameError") /\ UNCHANGED kernelVars
       ELSE IF \E i \in 1..Len(Cur(n).arg) : Cur(n).arg[i] \notin DOMAIN fs
       THEN Raise(n, "FileNotFoundError") /\ UNCHANGED kernelVars
       ELSE Bind(n, Cur(n).binds, Cur(n).gpu) /\ Advance(n, <<>>)
    /\ UNCHANGED <<sleepLeft, fs, modified, sincePoll, loading, served, polled,
                   sent, open, reruns>>

\* traced_script_module.save, torch.onnx.export, tf.saved_model.save
Export(n) ==
    /\ AtCell(n, "export")
    /\ IF NameError(n)
       THEN Raise(n, "NameError") /\ UNCHANGED <<ns, gpu, fs, modified>>
       ELSE IF ~CanWrite(fs, Cur(n).arg.path)
       THEN /\ Raise(n, "FileNotFoundError")
            /\ Bind(n, Cur(n).binds, Cur(n).gpu)
            /\ UNCHANGED <<fs, modified>>
       ELSE /\ fs' = WriteFile(fs, Cur(n).arg.path, ArtifactFile(Cur(n).arg.artifact))
            /\ modified' = modified \cup ModelOf(Cur(n).arg.path)
            /\ Bind(n, Cur(n).binds, Cur(n).gpu)
            /\ Advance(n, <<Ev("export", Cur(n).arg.path)>>)
    /\ UNCHANGED <<sleepLeft, sincePoll, loading, served, polled, sent, open, reruns>>

\* the engine trtexec builds from an ONNX model under the shape options
Plan(onnx, shapes, fp16) ==
    Artifact("plan", onnx.input, onnx.output, onnx.dynamic,
             [min |-> shapes.min[2], opt |-> shapes.opt[2], max |-> shapes.max[2]],
             IF fp16 THEN "fp16" ELSE "fp32")

\* trtexec can build: the ONNX file is there, the shape options name its
\* input, its batch axis is dynamic, and the engine's directory exists
CanBuild(f, a) ==
    /\ a.onnx \in DOMAIN f
    /\ f[a.onnx].kind = "artifact"
    /\ f[a.onnx].body.format = "onnx"
    /\ \A k \in {"min", "opt", "max", "shapes"} :
           a.shapes[k][1] = f[a.onnx].body.input
    /\ <<f[a.onnx].body.input, 0>> \in f[a.onnx].body.dynamic
    /\ CanWrite(f, a.saveEngine)

\* !trtexec --onnx=... --saveEngine=... : a shell command, it never raises
Trtexec(n) ==
    /\ AtCell(n, "trtexec")
    /\ IF CanBuild(fs, Cur(n).arg)
       THEN /\ fs' = WriteFile(fs, Cur(n).arg.saveEngine,
                     ArtifactFile(Plan(fs[Cur(n).arg.onnx].body, Cur(n).arg.shapes,
                                       Cur(n).arg.fp16)))
            /\ modified' = modified \cup ModelOf(Cur(n).arg.saveEngine)
            /\ Advance(n, <<Ev("trtexec", <<Cur(n).arg.onnx, TRUE>>),
                            Ev("export", Cur(n).arg.saveEngine)>>)
       ELSE /\ UNCHANGED <<fs, modified>>
            /\ Advance(n, <<Ev("trtexec", <<Cur(n).arg.onnx,
                                             Cur(n).arg.onnx \in DOMAIN fs>>)>>)
    /\ UNCHANGED <<ns, gpu, sleepLeft, sincePoll, loading, served, polled,
                   sent, open, reruns>>

\* with open('models/<model>/config.pbtxt', 'w') as file: file.write(configuration)
WriteConfig(n) ==
    /\ AtCell(n, "write_config")
    /\ Bind(n, Cur(n).binds, Cur(n).gpu)
    /\ IF ~CanWrite(fs, Cur(n).arg.path)
       THEN Raise(n, "FileNotFoundError") /\ UNCHANGED <<fs, modified>>
       ELSE /\ fs' = WriteFile(fs, Cur(n).arg.path, ConfigFile(Cur(n).arg.config))
            /\ modified' = modified \cup ModelOf(Cur(n).arg.path)
            /\ Advance(n, <<Ev("config", Cur(n).arg.path)>>)
    /\ UNCHANGED <<sleepLeft, sincePoll, loading, served, polled, sent, open, reruns>>

----------------------------------------------------------------------------
(* Waiting for the server, and talking to it *)

\* the models a notebook deploys: the directories it writes a config.pbtxt into
Deploys(n) ==
    {Cells(n)[i].arg.path[2] :
        i \in {j \in 1..Len(Cells(n)) : Cells(n)[j].kind = "write_config"}}

\* the part of the repository that belongs to the given models
View(f, names) == [p \in {q \in DOMAIN f : ModelOf(q) \cap names # {}} |-> f[p]]

Max(a, b) == IF a >= b THEN a ELSE b

RECURSIVE Gcd(_, _)
Gcd(a, b) == IF b = 0 THEN a ELSE Gcd(b, a % b)

\* seconds of one clock tick: the longest step that lands on every poll and
\* on the end of every sleep
TickSecs == Gcd(PollSecs, SleepSecs)

\* !sleep 45 starts; no sleep is running while sleepLeft is -1
SleepStart(n) ==
    /\ AtCell(n, "sleep")
    /\ sleepLeft[n] = -1
    /\ sleepLeft' = [sleepLeft EXCEPT ![n] = Cur(n).arg]
    /\ polled' = [polled EXCEPT ![n] = {}]
    /\ log' = [log EXCEPT ![n] = Append(@, Ev("sleep_begin", Cur(n).arg))]
    /\ UNCHANGED <<pc, ns, gpu, err, fs, modified, sincePoll, loading, served,
                   sent, open, reruns>>

\* !sleep 45 returns once its seconds have passed
SleepEnd(n) ==
    /\ AtCell(n, "sleep")
    /\ sleepLeft[n] = 0
    /\ sleepLeft' = [sleepLeft EXCEPT ![n] = -1]
    /\ Advance(n, <<Ev("sleep_end", Cur(n).arg)>>)
    /\ UNCHANGED <<ns, gpu, fs, modified, sincePoll, loading, served, polled,
                   sent, open, reruns>>

\* the status the server answers a GET with
HttpStatus(url) ==
    IF url = <<"v2", "health", "ready">> THEN 200
    ELSE IF Len(url) = 3 /\ url[1] = "v2" /\ url[2] = "models"
                         /\ url[3] \in DOMAIN served THEN 200
    ELSE 400

\* a readiness check that stops the run unless the answer is 200
CurlInspected(n) ==
    /\ AtCell(n, "curl")
    /\ IF HttpStatus(Cur(n).arg) = 200
       THEN Advance(n, <<Ev("curl", <<Cur(n).arg, HttpStatus(Cur(n).arg)>>)>>)
       ELSE Raise(n, "CalledProcessError")
    /\ UNCHANGED <<ns, gpu, sleepLeft, fs, modified, sincePoll, loading, served,
                   polled, sent, open, reruns>>

\* !curl -v triton:8000/<url> : the status is shown, never inspected
Curl(n) ==
    /\ AtCell(n, "curl")
    /\ Advance(n, <<Ev("curl", <<Cur(n).arg, HttpStatus(Cur(n).arg)>>)>>)
    /\ UNCHANGED <<ns, gpu, sleepLeft, fs, modified, sincePoll, loading, served,
                   polled, sent, open, reruns>>

\* the server has the version of the model ready
Ready(model, version) ==
    model \in DOMAIN served /\ version \in served[model].versions

\* InferenceServerClient(url), get_model_metadata, get_model_config
Client(n) ==
    /\ AtCell(n, "client")
    /\ IF NameError(n)
       THEN Raise(n, "NameError") /\ UNCHANGED kernelVars
       ELSE IF ~Ready(ns[n]["model_name"][1], ns[n]["model_version"][1])
       THEN /\ Raise(n, "InferenceServerException")
            /\ Bind(n, Opaque({"triton_client"}), {})
       ELSE /\ Bind(n, Cur(n).binds, Cur(n).gpu)
            /\ Advance(n, <<Ev("get_model_metadata", ns[n]["model_name"][1]),
                            Ev("get_model_config", ns[n]["model_name"][1])>>)
    /\ UNCHANGED <<sleepLeft, fs, modified, sincePoll, loading, served, polled,
                   sent, open, reruns>>

\* the request an infer cell builds from the names (and literals) it uses
Request(n) ==
    LET v == Cur(n).arg @@ ns[n]
    IN  [model_name |-> v["model_name"][1],
         model_version |-> v["model_version"][1],
         input |-> [name |-> v["input_name"][1], shape |-> v["input_shape"],
                    datatype |-> v["input_dtype"][1]],
         output |-> v["output_name"][1]]

\* the server accepts a request for a model it serves under configuration c
Accepts(c, r) ==
    /\ r.input.name = c.input.name
    /\ r.input.datatype = WireDType(c.input.data_type)
    /\ r.input.shape # <<>>
    /\ Tail(r.input.shape) = c.input.dims
    /\ Head(r.input.shape) <= c.max_batch_size
    /\ r.output = c.output.name

\* InferInput, set_data_from_numpy, InferRequestedOutput, triton_client.infer
Infer(n) ==
    /\ AtCell(n, "infer")
    /\ IF NameError(n)
       THEN Raise(n, "NameError") /\ UNCHANGED <<ns, gpu, sent>>
       ELSE IF ns[n]["image_numpy"] # Request(n).input.shape
       THEN /\ Raise(n, "InferenceServerException")
            /\ Bind(n, Opaque({"input0"}), {})
            /\ UNCHANGED sent
       ELSE /\ sent' = sent \cup {[nb |-> n, request |-> Request(n)]}
            /\ IF /\ Ready(Request(n).model_name, Request(n).model_version)
                  /\ Accepts(served[Request(n).model_name].config, Request(n))
               THEN /\ Bind(n, ("logits" :> S(Request(n).model_name)) @@
                               Opaque({"input0", "output", "response"}), {})
                    /\ Advance(n, <<Ev("infer", Request(n).model_name)>>)
               ELSE /\ Raise(n, "InferenceServerException")
                    /\ Bind(n, Opaque({"input0", "output"}), {})
    /\ UNCHANGED <<sleepLeft, fs, modified, sincePoll, loading, served, polled,
                   open, reruns>>

\* print(labels[np.argmax(logits)]): logits still on the GPU cannot be read
PrintLabel(n) ==
    /\ AtCell(n, "print")
    /\ IF NameError(n)
       THEN Raise(n, "NameError")
       ELSE IF ns[n]["logits"] = S("local")
       THEN Raise(n, "TypeError")
       ELSE Advance(n, <<Ev("print", ns[n]["logits"][1])>>)
    /\ UNCHANGED <<ns, gpu, sleepLeft, fs, modified, sincePoll, loading, served,
                   polled, sent, open, reruns>>

\* a placeholder cell of an exercise (it holds FIXME) is skipped
Fixme(n) ==
    /\ AtCell(n, "fixme")
    /\ pc' = [pc EXCEPT ![n] = @ + 1]
    /\ UNCHANGED <<ns, gpu, err, log, sleepLeft, fs, modified, sincePoll,
                   loading, served, polled, sent, open, reruns>>

----------------------------------------------------------------------------
(* Cleaning up, and running a notebook again *)

\* a clean-up that removes the version directory only: rm -rf <model>/1
RemoveVersionOnly(n) ==
    /\ AtCell(n, "rm_rf")
    /\ fs' = RmRf(fs, Cur(n).arg \o <<"1">>)
    /\ modified' = modified \cup Touched(fs, fs')
    /\ Advance(n, <<Ev("rm_rf", Cur(n).arg)>>)
    /\ UNCHANGED <<ns, gpu, sleepLeft, sincePoll, loading, served, polled, sent,
                   open, reruns>>

\* !rm -rf models/simple-tensorflow-model
Remove(n) ==
    /\ AtCell(n, "rm_rf")
    /\ fs' = RmRf(fs, Cur(n).arg)
    /\ modified' = modified \cup Touched(fs, fs')
    /\ Advance(n, <<Ev("rm_rf", Cur(n).arg)>>)
    /\ UNCHANGED <<ns, gpu, sleepLeft, sincePoll, loading, served, polled, sent,
                   open, reruns>>

\* a shutdown that leaves the kernel as it is
AfterNoShutdown(names, restart) == names

\* what kernel.do_shutdown(restart) leaves of the kernel's namespace
AfterShutdown(names, restart) == <<>>

\* import IPython; IPython.Application.instance().kernel.do_shutdown(True):
\* the kernel process ends, and with it everything it held on the GPU
Shutdown(n) ==
    /\ AtCell(n, "shutdown")
    /\ ns' = [ns EXCEPT ![n] = AfterShutdown(Cur(n).binds @@ @, Cur(n).arg)]
    /\ gpu' = [gpu EXCEPT ![n] = @ \cap DOMAIN ns'[n]]
    /\ open' = open \ {n}
    /\ Advance(n, <<Ev("shutdown", gpu[n])>>)
    /\ UNCHANGED <<sleepLeft, fs, modified, sincePoll, loading, served, polled,
                   sent, reruns>>

\* a notebook is opened and worked through from its first cell, for the first
\* time or, once it has reached its end, again
Open(n) ==
    /\ n \notin open
    /\ Cardinality(open) < MaxOpen
    /\ pc[n] \in {1, End(n)}
    /\ pc[n] = End(n) => reruns < MaxReruns
    /\ reruns' = IF pc[n] = End(n) THEN reruns + 1 ELSE reruns
    /\ open' = open \cup {n}
    /\ pc' = [pc EXCEPT ![n] = 1]
    /\ log' = [log EXCEPT ![n] = <<>>]
    /\ polled' = [polled EXCEPT ![n] = {}]
    /\ sent' = {s \in sent : s.nb # n}
    /\ UNCHANGED <<ns, gpu, err, sleepLeft, fs, modified, sincePoll, loading,
                   served>>

----------------------------------------------------------------------------
(* The server: it polls the repository once every 30 seconds and loads,     *)
(* asynchronously, what it finds new or changed                             *)

\* the sleeps that are running get TickSecs seconds nearer to their end
Slept(left) ==
    [n \in Notebooks |->
        IF left[n] > 0 THEN Max(0, left[n] - TickSecs) ELSE left[n]]

\* TickSecs seconds pass and no poll falls due
Tick ==
    /\ sincePoll + TickSecs < PollSecs
    /\ sincePoll' = sincePoll + TickSecs
    /\ sleepLeft' = Slept(sleepLeft)
    /\ UNCHANGED <<pc, ns, gpu, err, log, fs, modified, loading, served, polled,
                   sent, open, reruns>>

\* what the server starts loading of model m
Load(f, m) == [config |-> f[ConfigPath(m)].body, versions |-> Versions(f, m)]

\* TickSecs seconds pass and the next poll starts: changed models are loaded
\* again, removed and broken ones are unloaded
Poll ==
    /\ sincePoll + TickSecs >= PollSecs
    /\ sincePoll' = sincePoll + TickSecs - PollSecs
    /\ sleepLeft' = Slept(sleepLeft)
    /\ modified' = {}
    /\ loading' = [m \in {x \in (DOMAIN loading \cup modified) :
                             IF x \in modified THEN Seen(fs, x) = "complete"
                             ELSE TRUE}
                     |-> IF m \in modified THEN Load(fs, m) ELSE loading[m]]
    /\ served' = Without(served, {m \in modified : Seen(fs, m) # "complete"})
    /\ polled' = [n \in Notebooks |->
                     IF sleepLeft'[n] > 0
                     THEN polled[n] \cup {View(fs, Deploys(n))}
                     ELSE polled[n]]
    /\ UNCHANGED <<pc, ns, gpu, err, log, fs, sent, open, reruns>>

\* a load the server started comes to its end: the model is ready
FinishLoad(m) ==
    /\ m \in DOMAIN loading
    /\ served' = (m :> loading[m]) @@ served
    /\ loading' = Without(loading, {m})
    /\ UNCHANGED <<pc, ns, gpu, err, log, sleepLeft, fs, modified, sincePoll,
                   polled, sent, open, reruns>>

----------------------------------------------------------------------------
(* The system *)

ModelNames ==
    {"simple-pytorch-model", "simple-onnx-model", "simple-tensorflow-model",
     "simple-tensorrt-fp32-model", "simple-tensorrt-fp16-model"}

Init ==
    /\ pc = [n \in Notebooks |-> 1]
    /\ ns = [n \in Notebooks |-> <<>>]
    /\ gpu = [n \in Notebooks |-> {}]
    /\ err = [n \in Notebooks |-> ""]
    /\ log = [n \in Notebooks |-> <<>>]
    /\ sleepLeft = [n \in Notebooks |-> -1]
    /\ fs = (Models :> Dir) @@ (LabelsJson :> File) @@
            (Parent(GoldfishJpg) :> Dir) @@ (GoldfishJpg :> File)
    /\ modified = {}
    /\ sincePoll \in {t \in 0..(PollSecs - 1) : t % TickSecs = 0}
    /\ loading = <<>>
    /\ served = <<>>
    /\ polled = [n \in Notebooks |-> {}]
    /\ sent = {}
    /\ open = {}
    /\ reruns = 0

Next ==
    \/ \E n \in Notebooks :
          \/ Mkdir(n)
          \/ Python(n)
          \/ Export(n)
          \/ Trtexec(n)
          \/ WriteConfig(n)
          \/ SleepStart(n)
          \/ SleepEnd(n)
          \/ Curl(n)
          \/ Client(n)
          \/ Infer(n)
          \/ PrintLabel(n)
          \/ Fixme(n)
          \/ Remove(n)
          \/ Shutdown(n)
          \/ Open(n)
    \/ Tick
    \/ Poll
    \/ \E m \in ModelNames : FinishLoad(m)

Spec == Init /\ [][Next]_vars

\* the server's clock runs on: time passes and, once every PollSecs seconds,
\* the next poll starts
SpecFair == Spec /\ WF_vars(Tick) /\ WF_vars(Poll)

----------------------------------------------------------------------------
(* Reading the log of a run *)

\* before step i of its run, notebook n completed step e on a
Earlier(n, i, e, a) ==
    \E j \in 1..(i - 1) : log[n][j].ev = e /\ log[n][j].arg = a

EarlierEv(n, i, e) == \E j \in 1..(i - 1) : log[n][j].ev = e

Did(n, e, a) == Earlier(n, Len(log[n]) + 1, e, a)
DidEv(n, e) == EarlierEv(n, Len(log[n]) + 1, e)

HealthReady == <<"v2", "health", "ready">>
ModelUrl(m) == <<"v2", "models", m>>

----------------------------------------------------------------------------
(* C1: in each notebook the steps happen in this order, for every model the  *)
(* notebook deploys: the model directory and its version directory 1 are     *)
(* made before the artifact is exported into them and before config.pbtxt is *)
(* written; every config.pbtxt is written before the sleep; the sleep ends   *)
(* before the server readiness check; the readiness check comes before the   *)
(* per-model checks; get_model_metadata and get_model_config come before the *)
(* infer call for the model; and a label is printed only after the infer     *)
(* call for its model returned.  A run that reached its end did all of them. *)

StepsInOrder(n) ==
    \A i \in 1..Len(log[n]) :
        LET e == log[n][i]
        IN  /\ e.ev \in {"export", "config"} =>
                 /\ Earlier(n, i, "mkdir", ModelDir(e.arg[2]))
                 /\ Earlier(n, i, "mkdir", VersionDir(e.arg[2], "1"))
            /\ e.ev = "export" => Parent(e.arg) = VersionDir(e.arg[2], "1")
            /\ e.ev = "config" => ~EarlierEv(n, i, "sleep_begin")
            /\ e.ev = "sleep_begin" =>
                 \A m \in Deploys(n) : Earlier(n, i, "config", ConfigPath(m))
            /\ e.ev = "curl" =>
                 IF e.arg[1] = HealthReady
                 THEN EarlierEv(n, i, "sleep_end")
                 ELSE \E j \in 1..(i - 1) :
                         log[n][j].ev = "curl" /\ log[n][j].arg[1] = HealthReady
            /\ e.ev = "infer" =>
                 /\ Earlier(n, i, "get_model_metadata", e.arg)
                 /\ Earlier(n, i, "get_model_config", e.arg)
            /\ e.ev = "print" => Earlier(n, i, "infer", e.arg)

RanAllSteps(n) ==
    \A m \in Deploys(n) :
        /\ Did(n, "mkdir", ModelDir(m))
        /\ Did(n, "mkdir", VersionDir(m, "1"))
        /\ \E j \in 1..Len(log[n]) :
              log[n][j].ev = "export" /\ Parent(log[n][j].arg) = VersionDir(m, "1")
        /\ Did(n, "config", ConfigPath(m))
        /\ \E j \in 1..Len(log[n]) :
              log[n][j].ev = "curl" /\ log[n][j].arg[1] = ModelUrl(m)
        /\ Did(n, "get_model_metadata", m)
        /\ Did(n, "get_model_config", m)
        /\ Did(n, "infer", m)
        /\ Did(n, "print", m)

C1_StepOrder ==
    \A n \in Notebooks :
        /\ StepsInOrder(n)
        /\ pc[n] = End(n) => RanAllSteps(n)

\* all three notebooks were worked through to their last cell
C1_Witness == \A n \in Notebooks : pc[n] = End(n) /\ DidEv(n, "shutdown")

----------------------------------------------------------------------------
(* C2: with the server polling once every PollSecs = 30 seconds, the sleep  *)
(* of SleepSecs = 45 seconds, which starts after the notebook's last write  *)
(* to the repository, contains the start of at least one poll, whatever the *)
(* phase of the polling cycle when it begins; every poll that started       *)
(* during the sleep saw the notebook's final repository contents, and one   *)
(* such poll has happened by the time the sleep returns, so before the      *)
(* first readiness check and the first inference request.                   *)

\* notebook n is past its setup cells and has not cleaned up
Deployed(n) == DidEv(n, "sleep_begin") /\ ~DidEv(n, "rm_rf")

C2_SleepContainsPoll ==
    \A n \in Notebooks :
        /\ Deployed(n) => \A v \in polled[n] : v = View(fs, Deploys(n))
        /\ DidEv(n, "sleep_end") => polled[n] # {}
        /\ \A i \in 1..Len(log[n]) :
              log[n][i].ev \in {"curl", "infer"} => polled[n] # {}

\* a sleep has returned, a poll started during it, and that poll saw every
\* model of the notebook complete
C2_Witness ==
    \E n \in Notebooks :
        /\ DidEv(n, "sleep_end")
        /\ Deployed(n)
        /\ polled[n] = {View(fs, Deploys(n))}
        /\ \A m \in Deploys(n) : Complete(fs, m)

----------------------------------------------------------------------------
(* C3: when the sleep has finished, every model whose artifact and          *)
(* config.pbtxt the notebook wrote before the sleep is deployed and ready   *)
(* in the server, so that the readiness checks and the inference requests   *)
(* that follow find it ready.                                               *)

\* notebook n exported the artifact of model m and wrote its config.pbtxt
Wrote(n, m) ==
    /\ \E j \in 1..Len(log[n]) :
          log[n][j].ev = "export" /\ Parent(log[n][j].arg) = VersionDir(m, "1")
    /\ Did(n, "config", ConfigPath(m))

C3_ReadyAfterSleep ==
    \A n \in Notebooks :
        DidEv(n, "sleep_end") /\ Deployed(n) =>
            \A m \in Deploys(n) : Wrote(n, m) => Ready(m, "1")

----------------------------------------------------------------------------
(* C4: after the setup cells of a notebook have run, the repository follows *)
(* the server's directory convention for every model M the notebook         *)
(* deploys: models/M/config.pbtxt exists, models/M/1/ exists and holds      *)
(* exactly one artifact, the artifact's file name is the one of the         *)
(* platform in M's config, and the name field of config.pbtxt is M.  For    *)
(* notebook 02 the result is the tree shown in its documentation.           *)

\* what lies in version directory v of model m
VersionFiles(f, m, v) == {p \in DOMAIN f : Len(p) = 4 /\ Parent(p) = VersionDir(m, v)}

FollowsConvention(f, m) ==
    /\ ConfigPath(m) \in DOMAIN f
    /\ f[ConfigPath(m)].kind = "config"
    /\ f[ConfigPath(m)].body.name = m
    /\ IsDir(f, VersionDir(m, "1"))
    /\ Cardinality(VersionFiles(f, m, "1")) = 1
    /\ \A p \in VersionFiles(f, m, "1") :
          /\ f[p].kind = "artifact"
          /\ p[4] = DefaultModelFilename(f[ConfigPath(m)].body.platform)

\* everything below models/
Repository(f) == {p \in DOMAIN f : Len(p) >= 2 /\ p[1] = "models"}

\* the claim as it stands: whenever the setup cells have run, and with the
\* whole of models/ being the documented tree for notebook 02
C4_ConventionAlways ==
    \A n \in Notebooks :
        Deployed(n) =>
            /\ \A m \in Deploys(n) : FollowsConvention(fs, m)
            /\ n = "02" => Repository(fs) = DocumentedTree02

\* every trtexec cell the notebook has run found the ONNX file it reads
OnnxWasThere(n) ==
    \A i \in 1..Len(log[n]) : log[n][i].ev = "trtexec" => log[n][i].arg[2]

\* C4 as amended: the convention holds for a notebook whose trtexec cells
\* (notebook 05) found models/simple-onnx-model/1/model.onnx, and the
\* directories of notebook 02's two models are the documented tree
C4_Convention ==
    \A n \in Notebooks :
        Deployed(n) /\ OnnxWasThere(n) =>
            /\ \A m \in Deploys(n) : FollowsConvention(fs, m)
            /\ n = "02" => DOMAIN View(fs, Deploys(n)) = DocumentedTree02

\* notebook 02 was run, and after it notebook 05 has run its setup cells
\* with both conversions done
C4_Witness ==
    /\ Deployed("02")
    /\ Deployed("05")
    /\ \E i \in 1..Len(log["05"]) :
          log["05"][i].ev = "trtexec" /\ log["05"][i].arg[2]
    /\ OnnxWasThere("05")
    /\ \A m \in Deploys("05") : Complete(fs, m)

----------------------------------------------------------------------------
(* C5: for every inference request the notebooks send, the model name, the  *)
(* input tensor name, the output tensor name and the input data type of the *)
(* request equal the name, input name, output name and data_type of the     *)
(* config.pbtxt written for that model; the requested model_version '1' is  *)
(* the version directory that was created; and the model name in each       *)
(* per-model curl check is the name of a model the notebook deployed.       *)

\* the requests notebooks sent whose repository part is still in place
SentRequests == {s \in sent : Deployed(s.nb)}

\* the configuration notebook n wrote for model m
Written(m) == fs[ConfigPath(m)].body

C5_RequestMatchesConfig ==
    /\ \A s \in SentRequests :
          LET r == s.request
          IN  /\ r.model_name \in Deploys(s.nb)
              /\ Did(s.nb, "config", ConfigPath(r.model_name))
              /\ ConfigPath(r.model_name) \in DOMAIN fs
              /\ r.model_name = Written(r.model_name).name
              /\ r.input.name = Written(r.model_name).input.name
              /\ r.output = Written(r.model_name).output.name
              /\ r.input.datatype = WireDType(Written(r.model_name).input.data_type)
              /\ r.model_version = "1"
              /\ Did(s.nb, "mkdir", VersionDir(r.model_name, r.model_version))
              /\ IsDir(fs, VersionDir(r.model_name, r.model_version))
    /\ \A n \in Notebooks : \A i \in 1..Len(log[n]) :
          log[n][i].ev = "curl" /\ log[n][i].arg[1] # HealthReady =>
              /\ log[n][i].arg[1] \in {ModelUrl(m) : m \in Deploys(n)}
              /\ Earlier(n, i, "config", ConfigPath(log[n][i].arg[1][3]))

\* the five requests have been sent: the main request of each notebook and
\* the exercise solutions of notebooks 02 and 05
C5_Witness ==
    /\ {s.request.model_name : s \in sent} = ModelNames
    /\ {s.request.model_name : s \in SentRequests} =
           Deploys("02") \cup Deploys("05")
    /\ DidEv("04", "infer")

----------------------------------------------------------------------------
(* C6: the tensor names given when an artifact is exported are the names    *)
(* its config.pbtxt declares: the ONNX export's first input name            *)
(* 'actual_input_1' and output name 'output1' are the input and output      *)
(* names of the simple-onnx-model config and of both TensorRT configs, and  *)
(* the tensor name of every trtexec shape option; the TensorFlow            *)
(* signature's input name 'input_0' is the input name of the                *)
(* simple-tensorflow-model config.  The PyTorch and ONNX configs of         *)
(* notebook 02 differ in their tensor names.                                *)

\* the artifact of version 1 of model m, under the file name of m's platform
ArtifactOf(m) == ArtifactPath(m, "1", DefaultModelFilename(Written(m).platform))

HasArtifact(m) == HasConfig(fs, m) /\ ArtifactOf(m) \in DOMAIN fs

\* the shape options of the trtexec cells notebook n has run or will run
ShapeOptionNames(n) ==
    {Cells(n)[i].arg.shapes[k][1] :
        i \in {j \in 1..Len(Cells(n)) : Cells(n)[j].kind = "trtexec"},
        k \in {"min", "opt", "max", "shapes"}}

C6_ExportNamesAreConfigNames ==
    /\ \A m \in ModelNames :
          HasArtifact(m) =>
              LET a == fs[ArtifactOf(m)].body
              IN  /\ a.input # "" => a.input = Written(m).input.name
                  /\ a.output # "" => a.output = Written(m).output.name
                  /\ a.format \in {"onnx", "plan"} =>
                        /\ a.input = "actual_input_1"
                        /\ a.output = "output1"
                        /\ ShapeOptionNames("05") = {a.input}
                  /\ a.format = "savedmodel" => a.input = "input_0"
    /\ HasConfig(fs, "simple-pytorch-model") /\ HasConfig(fs, "simple-onnx-model") =>
          /\ Written("simple-pytorch-model").input.name #
                 Written("simple-onnx-model").input.name
          /\ Written("simple-pytorch-model").output.name #
                 Written("simple-onnx-model").output.name

\* the ONNX model, both engines built from it and the TensorFlow model lie
\* in the repository with their configurations
C6_Witness ==
    /\ \A m \in ModelNames : HasArtifact(m)
    /\ {fs[ArtifactOf(m)].body.format : m \in ModelNames} =
           {"torchscript", "onnx", "savedmodel", "plan"}

----------------------------------------------------------------------------
(* C7: for every inference request the notebooks send, the request's input  *)
(* shape is one batch dimension followed by exactly the dims of the model's *)
(* config input, in the config's layout (1x3x224x224 for the NCHW models    *)
(* with dims [3,224,224]; 1x224x224x3 for the NHWC TensorFlow model with    *)
(* dims [224,224,3]), and the batch dimension 1 does not exceed the         *)
(* config's max_batch_size of 32.                                           *)

C7_RequestShape ==
    \A s \in SentRequests :
        LET r == s.request
            c == Written(r.model_name)
        IN  /\ ConfigPath(r.model_name) \in DOMAIN fs
            /\ r.input.shape = <<1>> \o c.input.dims
            /\ c.input.format = "FORMAT_NCHW" =>
                  c.input.dims = <<3, 224, 224>> /\ r.input.shape = <<1, 3, 224, 224>>
            /\ c.input.format = "FORMAT_NHWC" =>
                  c.input.dims = <<224, 224, 3>> /\ r.input.shape = <<1, 224, 224, 3>>
            /\ c.input.format \in {"FORMAT_NCHW", "FORMAT_NHWC"}
            /\ c.input.format = "FORMAT_NHWC" <=> r.model_name = "simple-tensorflow-model"
            /\ Head(r.input.shape) <= c.max_batch_size
            /\ c.max_batch_size = 32

\* requests in both layouts have been sent and their configurations are in
\* the repository
C7_Witness ==
    /\ \E s \in SentRequests : Written(s.request.model_name).input.format = "FORMAT_NHWC"
    /\ \E s \in SentRequests : Written(s.request.model_name).input.format = "FORMAT_NCHW"

----------------------------------------------------------------------------
(* C8: the batch sizes agree along the ONNX to TensorRT chain: the ONNX     *)
(* export marks dimension 0 of 'actual_input_1' and 'output1' as a dynamic  *)
(* batch axis; both trtexec conversions use the same optimization profile   *)
(* with min batch 1 <= opt batch 16 <= max batch 32 and non-batch dims      *)
(* 3x224x224; the profile's max batch equals max_batch_size (32) in both    *)
(* TensorRT configs; and every batch size the notebooks request (1) lies    *)
(* within [min, max] of the profile.                                        *)

\* the artifacts of the given format in the repository
ArtifactsOf(format) ==
    {fs[p].body : p \in {q \in DOMAIN fs : fs[q].kind = "artifact"
                                            /\ fs[q].body.format = format}}

TensorRTModels == {"simple-tensorrt-fp32-model", "simple-tensorrt-fp16-model"}

C8_BatchSizesAgree ==
    /\ \A a \in ArtifactsOf("onnx") :
          {<<"actual_input_1", 0>>, <<"output1", 0>>} \subseteq a.dynamic
    /\ \A a \in ArtifactsOf("plan") :
          /\ Head(a.profile.min) = 1
          /\ Head(a.profile.opt) = 16
          /\ Head(a.profile.max) = 32
          /\ Head(a.profile.min) <= Head(a.profile.opt)
          /\ Head(a.profile.opt) <= Head(a.profile.max)
          /\ \A k \in {"min", "opt", "max"} : Tail(a.profile[k]) = <<3, 224, 224>>
          /\ \A b \in ArtifactsOf("plan") : b.profile = a.profile
    /\ \A m \in TensorRTModels :
          HasArtifact(m) =>
              /\ Written(m).max_batch_size = Head(fs[ArtifactOf(m)].body.profile.max)
              /\ Written(m).max_batch_size = 32
    /\ \A s \in SentRequests :
          s.request.model_name \in TensorRTModels =>
              /\ HasArtifact(s.request.model_name)
              /\ Head(s.request.input.shape) = 1
              /\ Head(s.request.input.shape) >=
                     Head(fs[ArtifactOf(s.request.model_name)].body.profile.min)
              /\ Head(s.request.input.shape) <=
                     Head(fs[ArtifactOf(s.request.model_name)].body.profile.max)

\* both engines are built and configured and both have been sent a request
C8_Witness ==
    /\ \A m \in TensorRTModels : HasArtifact(m)
    /\ {fs[ArtifactOf(m)].body.precision : m \in TensorRTModels} = {"fp32", "fp16"}
    /\ TensorRTModels \subseteq {s.request.model_name : s \in SentRequests}

----------------------------------------------------------------------------
(* C9: notebook 05 converts the ONNX model that notebook 02 wrote: both     *)
(* trtexec steps read models/simple-onnx-model/1/model.onnx, and once       *)
(* notebook 02's ONNX export has run, that file stays in the repository     *)
(* through every step of the three notebooks, clean-up steps included, so   *)
(* it is present when notebook 05's conversion runs, which only reads it    *)
(* and builds its engine from it.                                           *)

OnnxFile == ArtifactPath("simple-onnx-model", "1", "model.onnx")

\* notebook 02's export is in place
OnnxExported(f) ==
    /\ OnnxFile \in DOMAIN f
    /\ f[OnnxFile].kind = "artifact"
    /\ f[OnnxFile].body.format = "onnx"

\* notebook n runs one of its trtexec cells in this step
RunsTrtexec(n) == AtCell(n, "trtexec") /\ pc'[n] = pc[n] + 1

----------------------------------------------------------------------------
(* C10: running the clean-up cell(s) at the end of a notebook frees the GPU *)
(* memory that notebook was using: after the final cell has run, the        *)
(* notebook's kernel has been restarted and holds none of the models or     *)
(* tensors the notebook placed on the GPU.                                  *)

\* the last cell of notebook n has run
Finished(n) == log[n] # <<>> /\ log[n][Len(log[n])].ev = "shutdown"

----------------------------------------------------------------------------
(* C11: the notebooks contain no error handling of their own: the result of *)
(* a readiness check (200 or not) is never inspected, so the check always   *)
(* lets the run go on to the next cell, without another wait; and a client  *)
(* call that fails because the model is not ready raises once: the cell     *)
(* sends at most one request, starts no second wait, and the run stays at   *)
(* the cell.  Each run sleeps once, before its first readiness check.       *)

\* notebook n does something in this step
Steps(n) == <<pc[n], err[n], log[n], ns[n]>>' # <<pc[n], err[n], log[n], ns[n]>>

\* the number of steps e in the log of notebook n
Count(n, e) == Cardinality({i \in 1..Len(log[n]) : log[n][i].ev = e})

C11_NoErrorHandling ==
    [][\A n \in Notebooks :
          /\ AtCell(n, "curl") /\ Steps(n) =>
                /\ pc'[n] = pc[n] + 1
                /\ err'[n] = ""
                /\ sleepLeft' = sleepLeft
                /\ log'[n][Len(log'[n])].arg[2] = HttpStatus(Cur(n).arg)
          /\ (AtCell(n, "client") \/ AtCell(n, "infer"))
                 /\ Steps(n) /\ err'[n] = "InferenceServerException" =>
                /\ pc'[n] = pc[n]
                /\ log'[n] = log[n]
                /\ sleepLeft' = sleepLeft
                /\ Cardinality(sent' \ sent) <= 1
          /\ AtCell(n, "sleep") /\ Steps(n) =>
                ~DidEv(n, "curl") /\ ~DidEv(n, "infer") /\ Count(n, "sleep_end") = 0
       ]_vars

\* a readiness check was answered non-200 and the run went on to send its
\* request; and a client call has failed on a model that is not ready
C11_Witness ==
    /\ \E n \in Notebooks : \E i \in 1..Len(log[n]) :
          /\ log[n][i].ev = "curl"
          /\ log[n][i].arg[2] # 200
          /\ \E j \in (i + 1)..Len(log[n]) :
                log[n][j].ev = "infer" /\ ModelUrl(log[n][j].arg) = log[n][i].arg[1]
    /\ \E n \in Notebooks :
          /\ n \in open
          /\ pc[n] <= Len(Cells(n))
          /\ Cur(n).kind = "client"
          /\ err[n] = "InferenceServerException"
          /\ Count(n, "sleep_begin") = 1

----------------------------------------------------------------------------
(* C12: the two TensorRT configurations are identical except for the name   *)
(* field: the FP16 model's config declares the same TYPE_FP32 input and     *)
(* output, the same dims, format and max_batch_size as the FP32 model's     *)
(* config, so that a request built for the FP32 model is valid for the FP16 *)
(* model after changing only the model name.                                *)

Fp32Model == "simple-tensorrt-fp32-model"
Fp16Model == "simple-tensorrt-fp16-model"

\* the requests sent to model m
RequestsTo(m) == {s.request : s \in {t \in SentRequests : t.request.model_name = m}}

C12_TensorRTConfigsAgree ==
    /\ HasConfig(fs, Fp32Model) /\ HasConfig(fs, Fp16Model) =>
          /\ [Written(Fp32Model) EXCEPT !.name = Fp16Model] = Written(Fp16Model)
          /\ Written(Fp32Model).name # Written(Fp16Model).name
          /\ Written(Fp16Model).input.data_type = "TYPE_FP32"
          /\ Written(Fp16Model).output.data_type = "TYPE_FP32"
          /\ \A r \in RequestsTo(Fp32Model) :
                /\ Accepts(Written(Fp32Model), r)
                /\ Accepts(Written(Fp16Model), [r EXCEPT !.model_name = Fp16Model])
    /\ \A r \in RequestsTo(Fp32Model) : \A q \in RequestsTo(Fp16Model) :
          q = [r EXCEPT !.model_name = Fp16Model]

\* both configurations are written, both engines are served and both models
\* have been sent their request
C12_Witness ==
    /\ HasConfig(fs, Fp32Model) /\ HasConfig(fs, Fp16Model)
    /\ RequestsTo(Fp32Model) # {} /\ RequestsTo(Fp16Model) # {}
    /\ Did("05", "infer", Fp32Model) /\ Did("05", "infer", Fp16Model)

----------------------------------------------------------------------------
(* C13: every repository poll the server performs while a notebook's setup  *)
(* cells are running observes each model directory of the notebook either   *)
(* absent or complete (version directory '1' with the finished artifact,    *)
(* and config.pbtxt): no poll falls between the creation of a model's       *)
(* directories and the writing of its artifact and config.                  *)

\* this step is the start of a poll
PollStarts == sincePoll + TickSecs >= PollSecs /\ sincePoll' # sincePoll

\* notebook n is being worked through and has not reached its sleep
InSetup(n) == n \in open /\ ~DidEv(n, "sleep_begin")

C13_NoPollSeesPartModel ==
    [][PollStarts =>
          \A n \in Notebooks :
              InSetup(n) => \A m \in Deploys(n) : Seen(fs, m) # "partial"]_vars

\* C13 as amended: a poll that starts once the setup cells have run (from
\* the start of the sleep to the clean-up, the trtexec cells of notebook 05
\* having found the ONNX file) observes every model of the notebook
\* complete; a poll within the setup cells may observe a partly written
\* model, and what the server then starts to load is never such a model
C13_PollsAfterSetup ==
    [][PollStarts =>
          /\ \A n \in Notebooks :
                Deployed(n) /\ OnnxWasThere(n) =>
                    \A m \in Deploys(n) : Seen(fs, m) = "complete"
          /\ \A m \in DOMAIN loading' :
                m \in modified => Seen(fs, m) = "complete"
          /\ \A m \in ModelNames :
                Seen(fs, m) = "partial" /\ m \in modified =>
                    m \notin DOMAIN loading' /\ m \notin DOMAIN served']_vars

\* notebook 02 has been polled after its setup cells, and a poll has found
\* notebook 04's model partly written and has not loaded it
C13_Witness ==
    /\ Deployed("02")
    /\ polled["02"] # {}
    /\ InSetup("04")
    /\ Seen(fs, "simple-tensorflow-model") = "partial"
    /\ "simple-tensorflow-model" \notin modified
    /\ "simple-tensorflow-model" \notin DOMAIN loading \cup DOMAIN served

----------------------------------------------------------------------------
(* C14: each notebook writes only inside the model directories it deploys,  *)
(* and the five model names are pairwise distinct, so no step of a notebook *)
(* overwrites or removes another notebook's model; in particular notebook   *)
(* 04's rm -rf leaves the other four model directories unchanged, and       *)
(* notebook 05 leaves models/simple-onnx-model unchanged.                   *)

\* the paths a step adds, removes or writes anew
Changed(f, g) ==
    {p \in DOMAIN f \cup DOMAIN g :
        \/ p \notin DOMAIN f
        \/ p \notin DOMAIN g
        \/ f[p] # g[p]}

C14_WritesOnlyOwnModels ==
    [][/\ \A a \in Notebooks : \A b \in Notebooks \ {a} :
             Deploys(a) \cap Deploys(b) = {}
       /\ UNION {Deploys(n) : n \in Notebooks} = ModelNames
       /\ Cardinality(ModelNames) = 5
       /\ fs' # fs => \E n \in Notebooks : pc'[n] # pc[n]
       /\ \A n \in Notebooks :
             pc'[n] # pc[n] =>
                 /\ \A p \in Changed(fs, fs') :
                       ModelOf(p) # {} /\ ModelOf(p) \subseteq Deploys(n)
                 /\ View(fs', ModelNames \ Deploys(n)) =
                       View(fs, ModelNames \ Deploys(n))
                 /\ n = "05" /\ OnnxFile \in DOMAIN fs =>
                       View(fs', {"simple-onnx-model"}) = View(fs, {"simple-onnx-model"})]_vars

\* notebooks 02 and 05 have run, and notebook 04 has removed its model
\* directory: the other four models are in the repository, complete
C14_Witness ==
    /\ DidEv("04", "rm_rf")
    /\ ModelDir("simple-tensorflow-model") \notin DOMAIN fs
    /\ \A m \in Deploys("02") \cup Deploys("05") : Complete(fs, m)
    /\ DidEv("05", "infer")

----------------------------------------------------------------------------
(* C15: after notebook 04's clean-up removed models/simple-tensorflow-model *)
(* the server stops serving simple-tensorflow-model at its next repository  *)
(* poll, which eventually starts, and from then on the model stays unloaded *)
(* until notebook 04's setup cells run again; the models of notebooks 02    *)
(* and 05, which have no such removal step, stay in the repository and stay *)
(* loaded after those notebooks end.                                        *)

TensorFlowModel == "simple-tensorflow-model"

\* the server has the model, ready or on its way
Loaded(m) == m \in DOMAIN served \cup DOMAIN loading

Removed(f, m) == ModelDir(m) \notin DOMAIN f

C15_RemovedModelIsUnloaded ==
    /\ [](DidEv("04", "rm_rf") => Removed(fs, TensorFlowModel))
    /\ [][PollStarts /\ Removed(fs, TensorFlowModel) => ~Loaded(TensorFlowModel)']_vars
    /\ [](Removed(fs, TensorFlowModel) /\ TensorFlowModel \notin modified =>
              ~Loaded(TensorFlowModel))
    /\ (Removed(fs, TensorFlowModel) ~>
            (~Loaded(TensorFlowModel) \/ ~Removed(fs, TensorFlowModel)))
    /\ [](\A n \in {"02", "05"} :
              Finished(n) =>
                  \A m \in Deploys(n) : Complete(fs, m) /\ m \in DOMAIN served)

\* notebook 04's model was served, its clean-up has removed it and a poll
\* has unloaded it, while the models of notebooks 02 and 05, which ended,
\* are served
C15_Witness ==
    /\ Did("04", "infer", TensorFlowModel)
    /\ DidEv("04", "rm_rf")
    /\ TensorFlowModel \notin modified
    /\ ~Loaded(TensorFlowModel)
    /\ Finished("02") /\ Finished("05")
    /\ Deploys("02") \cup Deploys("05") \subseteq DOMAIN served

----------------------------------------------------------------------------
(* C16: the setup cells are idempotent on the repository: running a         *)
(* notebook's mkdir -p cell, export cells and config-writing cells a second *)
(* time, as notebook 05 asks the user to do for notebook 02, leaves the set *)
(* of paths in the model repository and the contents of every config.pbtxt  *)
(* the same as after the first run.                                         *)

\* the cells of notebook n of the given kind
CellsOf(n, kind) == {Cells(n)[i] : i \in {j \in 1..Len(Cells(n)) : Cells(n)[j].kind = kind}}

\* the paths the setup cells of notebook n name: directories, artifacts,
\* configurations
SetupPaths(n) ==
    UNION {{c.arg[i] : i \in 1..Len(c.arg)} : c \in CellsOf(n, "mkdir")}
    \cup {c.arg.path : c \in CellsOf(n, "export") \cup CellsOf(n, "write_config")}
    \cup {c.arg.saveEngine : c \in CellsOf(n, "trtexec")}

\* the result of the setup cells of notebook n is in the repository
SetupDone(f, n) ==
    /\ DOMAIN View(f, Deploys(n)) = SetupPaths(n)
    /\ \A c \in CellsOf(n, "write_config") : f[c.arg.path] = ConfigFile(c.arg.config)

C16_SetupIdempotent ==
    /\ [](\A n \in Notebooks : Deployed(n) /\ OnnxWasThere(n) => SetupDone(fs, n))
    /\ [][\A n \in Notebooks :
              InSetup(n) /\ SetupDone(fs, n) /\ pc'[n] # pc[n] =>
                  /\ Repository(fs') = Repository(fs)
                  /\ SetupDone(fs', n)
                  /\ \A m \in ModelNames :
                        ConfigPath(m) \in DOMAIN fs => fs'[ConfigPath(m)] = fs[ConfigPath(m)]]_vars

\* notebook 02 has run to its end and has run its setup cells a second time
C16_Witness ==
    /\ reruns = 1
    /\ pc["04"] = 1 /\ pc["05"] = 1
    /\ "02" \in open
    /\ Deployed("02")
    /\ SetupDone(fs, "02")

----------------------------------------------------------------------------
(* C17: in each notebook, when the code cells are executed once each in     *)
(* document order, skipping the placeholder cells that contain FIXME, every *)
(* variable or imported name a cell reads was bound by an earlier cell of   *)
(* the same notebook; no cell depends on a name bound only in another       *)
(* notebook or in a later cell, so each notebook runs from a freshly        *)
(* restarted kernel.                                                        *)

\* notebook n is at one of its cells
AtSomeCell(n) == n \in open /\ pc[n] <= Len(Cells(n))

C17_NamesBoundBeforeUse ==
    \A n \in Notebooks :
        /\ err[n] # "NameError"
        /\ pc[n] = 1 => DOMAIN ns[n] = {}
        /\ AtSomeCell(n) /\ Cur(n).kind # "fixme" => Cur(n).reads \subseteq DOMAIN ns[n]
        /\ AtSomeCell(n) /\ Cur(n).kind = "infer" =>
              DOMAIN Cur(n).arg \cup Cur(n).reads =
                  {"tritonhttpclient", "input_name", "input_shape", "input_dtype",
                   "image_numpy", "output_name", "triton_client", "model_name",
                   "model_version", "np"}

\* notebooks 02 and 04 have run from a fresh kernel to their last cell, and
\* notebook 05 is about to send the request of its exercise
C17_Witness ==
    /\ Finished("02") /\ Finished("04")
    /\ AtSomeCell("05")
    /\ Cur("05").kind = "infer"
    /\ Did("05", "infer", Fp32Model)
    /\ {"input_shape", "image_numpy", "triton_client", "labels", "np"}
           \subseteq DOMAIN ns["05"]

====
